---- MODULE Spec2Model ----
(***************************************************************************)
(* Model of quacktokenscope:                                               *)
(*   - SentencePieceTokenizer (utils/tokenizers/sentencepiece_tokenizer.py)*)
(*     one instance, its initialize / tokenize / decode / get_vocab_size.  *)
(*   - handle_calculate_cost_command (education/cli/calculate_cost.py).    *)
(* External collaborators (transformers, sentencepiece, the quackcore file *)
(* service, the plugin) are inputs: every call to one of them has its      *)
(* outcome drawn from the outcomes that call can have.  Logging calls are  *)
(* taken to return normally and are left out.                              *)
(***************************************************************************)
EXTENDS Integers, Sequences, FiniteSets, TLC

VARIABLES
    initialized,    \* self._initialized
    tokenizer,      \* self._tokenizer: "None", "T5", "SPM_unloaded", "SPM"
    temp_dir,       \* self._temp_dir: "None" or "tmp"
    artifact,       \* file system: ./models/sentencepiece.model exists
    op,             \* the last operation called on the tokenizer
    ret,            \* what it returned: "True", "False", "value", "none"
    exc,            \* the exception that escaped it, "none" when it returned
    calls,          \* external calls the last initialize() made, in order
    path,           \* branch the last tokenize/decode/get_vocab_size took
    out,            \* the value the last tokenize/decode/get_vocab_size returned
    everSucceeded,  \* history: some initialize() call has returned True
    lastInit,       \* history: what the most recent initialize() call returned
    cliPc,          \* handle_calculate_cost_command: "start" or "done"
    cliReq,         \* its arguments and the answers of its collaborators
    cliSteps,       \* the calls it made, in order
    cliResults,     \* what compare_models returned, in the mapping's order
    cliRows         \* the rows added to the comparison table, in order

tokVars == <<initialized, tokenizer, temp_dir, artifact, op, ret, exc, calls,
             path, out, everSucceeded, lastInit>>
cliVars == <<cliPc, cliReq, cliSteps, cliResults, cliRows>>
vars == <<initialized, tokenizer, temp_dir, artifact, op, ret, exc, calls,
          path, out, everSucceeded, lastInit, cliPc, cliReq, cliSteps, cliResults, cliRows>>

(***************************************************************************)
(* Bounds                                                                  *)
(***************************************************************************)
MaxTextLen == 2
MaxTokens == 2
MaxRate == 1

Chars == <<"a", "b">>

RECURSIVE SeqsUpTo(_, _)
SeqsUpTo(S, n) ==
    IF n = 0 THEN {<<>>}
    ELSE LET shorter == SeqsUpTo(S, n - 1)
         IN  shorter \cup {Append(s, x) : s \in {t \in shorter : Len(t) = n - 1}, x \in S}

Texts == SeqsUpTo({Chars[i] : i \in 1..Len(Chars)}, MaxTextLen)
IdSeqs == SeqsUpTo(1..Len(Chars), MaxTextLen)

(***************************************************************************)
(* SentencePieceTokenizer.initialize                                       *)
(***************************************************************************)
Call(n, o) == [call |-> n, out |-> o]

\* Outcomes of the external calls one initialize() call can meet.
AllEnvs ==
    [t5     : {"ok", "import_error", "error"},
     spm    : {"ok", "import_error"},
     mkdir  : {"ok", "fail", "raise"},
     stat   : {"ok", "fail", "raise"},
     mktemp : {"ok", "fail", "raise"},
     write  : {"ok", "fail", "raise"},
     train  : {"ok", "raise"},
     load   : {"ok", "raise"}]

\* The outcome of a call that is never made is immaterial: it is kept at "ok".
Unused(e, fields) == \A f \in fields : e[f] = "ok"

Envs ==
    {e \in AllEnvs :
        /\ e.t5 = "ok" => Unused(e, {"spm", "mkdir", "stat", "mktemp", "write", "train", "load"})
        /\ e.spm # "ok" => Unused(e, {"mkdir", "stat", "mktemp", "write", "train", "load"})
        /\ e.mkdir # "ok" => Unused(e, {"stat", "mktemp", "write", "train", "load"})
        /\ e.stat = "raise" => Unused(e, {"mktemp", "write", "train", "load"})
        /\ e.mktemp # "ok" => Unused(e, {"write", "train"})
        /\ e.write # "ok" => Unused(e, {"train"})}

\* A call in progress: the object's fields, the file system, and how it ended.
Running(r) == r.ret = "none" /\ r.exc = "none"

Start ==
    [initialized |-> initialized, tokenizer |-> tokenizer, temp_dir |-> temp_dir,
     artifact |-> artifact, calls |-> <<>>, ret |-> "none", exc |-> "none",
     found |-> FALSE]

\* from transformers import T5Tokenizer; T5Tokenizer.from_pretrained(model_name)
T5Strategy(e, r) ==
    IF e.t5 = "ok"
    THEN [r EXCEPT !.calls = Append(@, Call("from_pretrained", "ok")),
                   !.tokenizer = "T5", !.initialized = TRUE, !.ret = "True"]
    ELSE [r EXCEPT !.calls = Append(@, Call("from_pretrained", e.t5)),
                   !.exc = IF e.t5 = "import_error" THEN "ImportError" ELSE "Exception"]

\* import sentencepiece as spm
ImportSpm(e, r) ==
    IF ~Running(r) THEN r
    ELSE IF e.spm = "ok"
    THEN [r EXCEPT !.calls = Append(@, Call("import_sentencepiece", "ok"))]
    ELSE [r EXCEPT !.calls = Append(@, Call("import_sentencepiece", "import_error")),
                   !.exc = "ImportError"]

\* fs.create_directory("./models", exist_ok=True)
EnsureModelsDir(e, r) ==
    IF ~Running(r) THEN r
    ELSE LET r1 == [r EXCEPT !.calls = Append(@, Call("create_directory", e.mkdir))]
         IN  CASE e.mkdir = "ok" -> r1
               [] e.mkdir = "fail" -> [r1 EXCEPT !.ret = "False"]
               [] OTHER -> [r1 EXCEPT !.exc = "Exception"]

\* fs.get_file_info(model_path); model_info.success and model_info.exists
StatModel(e, r) ==
    IF ~Running(r) THEN r
    ELSE CASE e.stat = "ok" ->
                [r EXCEPT !.calls = Append(@, Call("get_file_info",
                                       IF r.artifact THEN "exists" ELSE "missing")),
                          !.found = r.artifact]
           [] e.stat = "fail" ->
                [r EXCEPT !.calls = Append(@, Call("get_file_info", "fail")),
                          !.found = FALSE]
           [] OTHER ->
                [r EXCEPT !.calls = Append(@, Call("get_file_info", "raise")),
                          !.exc = "Exception"]

\* fs.create_temp_directory(prefix=...); self._temp_dir = temp_dir_result.path
CreateTempDir(e, r) ==
    IF ~Running(r) THEN r
    ELSE LET r1 == [r EXCEPT !.calls = Append(@, Call("create_temp_directory", e.mktemp))]
         IN  CASE e.mktemp = "ok" -> [r1 EXCEPT !.temp_dir = "tmp"]
               [] e.mktemp = "fail" -> [r1 EXCEPT !.ret = "False"]
               [] OTHER -> [r1 EXCEPT !.exc = "Exception"]

\* fs.write_text(train_path, sample_text, encoding="utf-8", atomic=True)
WriteTrainingText(e, r) ==
    IF ~Running(r) THEN r
    ELSE LET r1 == [r EXCEPT !.calls = Append(@, Call("write_text", e.write))]
         IN  CASE e.write = "ok" -> r1
               [] e.write = "fail" -> [r1 EXCEPT !.ret = "False"]
               [] OTHER -> [r1 EXCEPT !.exc = "Exception"]

\* spm.SentencePieceTrainer.train(...): writes ./models/sentencepiece.model
TrainModel(e, r) ==
    IF ~Running(r) THEN r
    ELSE IF e.train = "ok"
    THEN [r EXCEPT !.calls = Append(@, Call("train", "ok")), !.artifact = TRUE]
    ELSE [r EXCEPT !.calls = Append(@, Call("train", "raise")), !.exc = "Exception"]

\* A plausible slip: the tokenizer is marked initialized before the model is loaded.
LoadModelMarksEarly(e, r) ==
    IF ~Running(r) THEN r
    ELSE LET ok == e.load = "ok" /\ r.artifact
             r1 == [r EXCEPT !.tokenizer = "SPM_unloaded", !.initialized = TRUE,
                             !.calls = Append(@, Call("load", IF ok THEN "ok" ELSE "raise"))]
         IN  IF ok THEN [r1 EXCEPT !.tokenizer = "SPM", !.ret = "True"]
             ELSE [r1 EXCEPT !.exc = "Exception"]

\* self._tokenizer = spm.SentencePieceProcessor(); self._tokenizer.load(model_path);
\* self._initialized = True; return True
LoadModel(e, r) ==
    IF ~Running(r) THEN r
    ELSE LET ok == e.load = "ok" /\ r.artifact
             r1 == [r EXCEPT !.tokenizer = "SPM_unloaded",
                             !.calls = Append(@, Call("load", IF ok THEN "ok" ELSE "raise"))]
         IN  IF ok THEN [r1 EXCEPT !.tokenizer = "SPM", !.initialized = TRUE, !.ret = "True"]
             ELSE [r1 EXCEPT !.exc = "Exception"]

\* The body of "except (ImportError, Exception)": the direct implementation.
Fallback(e, r) ==
    LET r1 == StatModel(e, EnsureModelsDir(e, ImportSpm(e, r)))
        r2 == IF Running(r1) /\ ~r1.found
              THEN TrainModel(e, WriteTrainingText(e, CreateTempDir(e, r1)))
              ELSE r1
    IN  LoadModel(e, r2)

\* A plausible slip: the fallback runs although the pretrained wrapper loaded.
TryBodyNoEarlyReturn(e, r) ==
    LET r1 == T5Strategy(e, r)
        r2 == Fallback(e, [r1 EXCEPT !.exc = "none", !.ret = "none"])
    IN  IF r1.ret = "True" /\ r2.ret # "True" /\ r2.exc = "none"
        THEN [r2 EXCEPT !.ret = "True"] ELSE r2

\* The outer try block: the inner try, and its handler when the inner try raised.
TryBody(e, r) ==
    LET r1 == T5Strategy(e, r)
    IN  IF r1.exc = "none" THEN r1
        ELSE Fallback(e, [r1 EXCEPT !.exc = "none"])

\* A plausible slip: only ImportError is caught by the outer handlers.
OuterExceptImportOnly(r) ==
    IF r.exc = "ImportError" THEN [r EXCEPT !.exc = "none", !.ret = "False"] ELSE r

\* except ImportError: return False / except Exception: return False
OuterExcept(r) ==
    IF r.exc # "none" THEN [r EXCEPT !.exc = "none", !.ret = "False"] ELSE r

InitializeRun(e) == OuterExcept(TryBody(e, Start))

NoOut == [kind |-> "none", ids |-> <<>>, strs |-> <<>>, text |-> <<>>]

Initialize ==
    \E e \in Envs :
        LET r == InitializeRun(e)
        IN  /\ initialized' = r.initialized
            /\ tokenizer' = r.tokenizer
            /\ temp_dir' = r.temp_dir
            /\ artifact' = r.artifact
            /\ op' = "initialize"
            /\ ret' = r.ret
            /\ exc' = r.exc
            /\ calls' = r.calls
            /\ path' = "none"
            /\ out' = NoOut
            /\ everSucceeded' = (everSucceeded \/ r.ret = "True")
            /\ lastInit' = r.ret
            /\ UNCHANGED cliVars

(***************************************************************************)
(* The backends, as far as the three operations use them                   *)
(***************************************************************************)
\* hasattr(self._tokenizer, attr).  The direct branches call encode and decode
\* on the SentencePieceProcessor, so the processor has them; vocab_size is a
\* method of the processor and a property of the T5 wrapper.
HasAttr(tok, attr) ==
    CASE tok = "T5" -> attr \in {"encode", "decode", "vocab_size", "convert_ids_to_tokens"}
      [] tok \in {"SPM", "SPM_unloaded"} ->
             attr \in {"encode", "decode", "vocab_size", "get_piece_size", "load"}
      [] OTHER -> FALSE

\* Keyword arguments of the transformers wrapper; the processor rejects them.
AcceptsKeyword(tok, kw) ==
    tok = "T5" /\ kw \in {"add_special_tokens", "skip_special_tokens"}

PieceId(c) == CHOOSE i \in 1..Len(Chars) : Chars[i] = c
Encode(text) == [i \in 1..Len(text) |-> PieceId(text[i])]
ConvertIdsToTokens(ids) == [i \in 1..Len(ids) |-> Chars[ids[i]]]
DecodeIds(ids) == [i \in 1..Len(ids) |-> Chars[ids[i]]]

Raise(p, x) == [ret |-> "none", exc |-> x, path |-> p, out |-> NoOut]
Return(p, v) == [ret |-> "value", exc |-> "none", path |-> p, out |-> v]

\* tokenize(text)
TokenizeRun(text) ==
    IF ~initialized THEN Raise("none", "RuntimeError")
    ELSE IF HasAttr(tokenizer, "encode")
    THEN \* encode(text, add_special_tokens=False); convert_ids_to_tokens(token_ids)
         IF ~AcceptsKeyword(tokenizer, "add_special_tokens") THEN Raise("t5", "TypeError")
         ELSE IF ~HasAttr(tokenizer, "convert_ids_to_tokens") THEN Raise("t5", "AttributeError")
         ELSE Return("t5", [NoOut EXCEPT !.kind = "pair", !.ids = Encode(text),
                                          !.strs = ConvertIdsToTokens(Encode(text))])
    ELSE \* encode(text, out_type=int); encode(text, out_type=str)
         IF ~HasAttr(tokenizer, "encode") THEN Raise("direct", "AttributeError")
         ELSE Return("direct", [NoOut EXCEPT !.kind = "pair", !.ids = Encode(text),
                                              !.strs = ConvertIdsToTokens(Encode(text))])

\* decode(token_ids)
DecodeRun(ids) ==
    IF ~initialized THEN Raise("none", "RuntimeError")
    ELSE IF HasAttr(tokenizer, "decode")
    THEN \* decode(token_ids, skip_special_tokens=True)
         IF ~AcceptsKeyword(tokenizer, "skip_special_tokens") THEN Raise("t5", "TypeError")
         ELSE Return("t5", [NoOut EXCEPT !.kind = "str", !.text = DecodeIds(ids)])
    ELSE \* decode(token_ids)
         IF ~HasAttr(tokenizer, "decode") THEN Raise("direct", "AttributeError")
         ELSE Return("direct", [NoOut EXCEPT !.kind = "str", !.text = DecodeIds(ids)])

\* get_vocab_size()
GetVocabSizeRun ==
    IF ~initialized THEN Raise("none", "RuntimeError")
    ELSE IF HasAttr(tokenizer, "vocab_size")
    THEN \* return self._tokenizer.vocab_size
         Return("t5", [NoOut EXCEPT !.kind = IF tokenizer = "T5" THEN "int" ELSE "method"])
    ELSE \* return self._tokenizer.get_piece_size()
         IF ~HasAttr(tokenizer, "get_piece_size") THEN Raise("direct", "AttributeError")
         ELSE Return("direct", [NoOut EXCEPT !.kind = "int"])

Observe(name, r) ==
    /\ op' = name
    /\ ret' = r.ret
    /\ exc' = r.exc
    /\ path' = r.path
    /\ out' = r.out
    /\ calls' = <<>>
    /\ UNCHANGED <<initialized, tokenizer, temp_dir, artifact, everSucceeded, lastInit>>
    /\ UNCHANGED cliVars

Tokenize == \E text \in Texts : Observe("tokenize", TokenizeRun(text))

Decode == \E ids \in IdSeqs : Observe("decode", DecodeRun(ids))

GetVocabSize == Observe("get_vocab_size", GetVocabSizeRun)

\* SentencePieceTokenizer.__init__ (BaseTokenizer.__init__ clears _initialized);
\* the model file may or may not be on disk already.
TokInit ==
    /\ initialized = FALSE
    /\ tokenizer = "None"
    /\ temp_dir = "None"
    /\ artifact \in BOOLEAN
    /\ op = "none"
    /\ ret = "none"
    /\ exc = "none"
    /\ calls = <<>>
    /\ path = "none"
    /\ out = NoOut
    /\ everSucceeded = FALSE
    /\ lastInit = "none"

CliIdle ==
    /\ cliPc = "done"
    /\ cliReq = <<>>
    /\ cliSteps = <<>>
    /\ cliResults = <<>>
    /\ cliRows = <<>>


(***************************************************************************)
(* Properties of SentencePieceTokenizer                                    *)
(***************************************************************************)
Observers == {"tokenize", "decode", "get_vocab_size"}

HasCall(cs, n) == \E i \in 1..Len(cs) : cs[i].call = n
HasCallOut(cs, n, o) == \E i \in 1..Len(cs) : cs[i].call = n /\ cs[i].out = o

\* C1: as long as no initialize() call has returned True (failed calls
\* included), tokenize, decode and get_vocab_size raise the not-initialized
\* RuntimeError and return nothing.
C1_NotInitializedUntilSuccess ==
    (~everSucceeded /\ op \in Observers) =>
        (ret = "none" /\ exc = "RuntimeError" /\ out = NoOut /\ path = "none")

\* C1 witness: a failed initialize() left an unloaded processor behind, and
\* decode still raises the not-initialized error.
C1_Witness ==
    /\ ~everSucceeded /\ lastInit = "False" /\ tokenizer = "SPM_unloaded"
    /\ op = "decode" /\ exc = "RuntimeError"

Rank(c) ==
    CASE c = "from_pretrained" -> 1
      [] c = "import_sentencepiece" -> 2
      [] c = "create_directory" -> 3
      [] c = "get_file_info" -> 4
      [] c = "create_temp_directory" -> 5
      [] c = "write_text" -> 6
      [] c = "train" -> 7
      [] c = "load" -> 8

\* C2: one initialize() call makes its external calls in one fixed order,
\* pretrained wrapper first; a strategy that succeeds ends the call with
\* True, and when the pretrained wrapper loads it is the only call made
\* (no file-store call, no training, no artifact load).
C2_FixedOrderFirstWins ==
    op = "initialize" =>
        /\ Len(calls) >= 1 /\ calls[1].call = "from_pretrained"
        /\ \A i, j \in 1..Len(calls) : i < j => Rank(calls[i].call) < Rank(calls[j].call)
        /\ \A i \in 1..Len(calls) :
              (calls[i].call \in {"from_pretrained", "load"} /\ calls[i].out = "ok")
                  => (i = Len(calls) /\ ret = "True")
        /\ calls[1].out = "ok" => (Len(calls) = 1 /\ tokenizer = "T5" /\ initialized)

\* C2 witness: the pretrained wrapper loaded while a local artifact was on
\* disk, and nothing else was called.
C2_Witness ==
    /\ op = "initialize" /\ ret = "True" /\ artifact
    /\ calls = <<Call("from_pretrained", "ok")>>

\* C3: initialize() on a tokenizer that is already initialized returns True
\* again and leaves _initialized and the backend as they were.
C3_InitializeIdempotent ==
    [][(initialized /\ op' = "initialize")
          => (ret' = "True" /\ initialized' /\ tokenizer' = tokenizer)]_vars

FileStoreChecked == {"create_directory", "create_temp_directory", "write_text"}

\* C4: when creating the models directory, creating the temporary directory
\* or writing the training text fails, initialize() returns False without
\* raising, the tokenizer is not initialized afterwards, and the failed call
\* is the last call made (no training, no model load after it).
C4_FileStoreFailureIsInitFailure ==
    op = "initialize" =>
        \A i \in 1..Len(calls) :
            (calls[i].call \in FileStoreChecked /\ calls[i].out \in {"fail", "raise"})
                => (ret = "False" /\ exc = "none" /\ ~initialized /\ i = Len(calls))

\* C5: no exception escapes initialize(); it returns True or False, and it
\* returns False only after the pretrained wrapper failed, the fallback was
\* entered, the last call it made failed and no strategy loaded a backend.
C5_NoExceptionEscapes ==
    op = "initialize" =>
        /\ exc = "none"
        /\ ret \in {"True", "False"}
        /\ ret = "False" =>
              /\ Len(calls) >= 2
              /\ calls[1].call = "from_pretrained" /\ calls[1].out # "ok"
              /\ calls[Len(calls)].out \in {"fail", "raise", "import_error"}
              /\ ~HasCallOut(calls, "load", "ok")

\* C5 witness: the wrapper failed, the model was trained, the load raised,
\* and the call returned False.
C5_Witness ==
    /\ op = "initialize" /\ ret = "False" /\ exc = "none"
    /\ HasCallOut(calls, "train", "ok") /\ HasCallOut(calls, "load", "raise")

\* C6: in the fallback path a model is trained exactly when no artifact is
\* on disk: with the artifact present the call creates no temporary
\* directory, writes no training file, runs no training and goes on to the
\* load; with it absent, a load happens only after a training that succeeded.
C6_TrainIffNoArtifact ==
    [][(op' = "initialize" /\ HasCall(calls', "get_file_info")
            /\ ~HasCallOut(calls', "get_file_info", "raise"))
          => /\ artifact =>
                  /\ ~HasCall(calls', "create_temp_directory")
                  /\ ~HasCall(calls', "write_text")
                  /\ ~HasCall(calls', "train")
                  /\ HasCall(calls', "load")
             /\ (~artifact /\ HasCall(calls', "load")) => HasCallOut(calls', "train", "ok")
             /\ HasCall(calls', "train") => ~artifact]_vars

\* C9: a tokenizer marked initialized has a fully loaded backend, and after
\* an initialize() call that returned False it is not marked initialized.
C9_InitializedMeansLoaded ==
    /\ initialized => tokenizer \in {"T5", "SPM"}
    /\ lastInit = "False" => ~initialized

Winner ==
    CASE tokenizer = "T5" -> "t5"
      [] tokenizer = "SPM" -> "direct"
      [] OTHER -> "none"

\* C10: on a ready tokenizer the three operations take the branch of the
\* strategy that won initialize(); tokenize returns ids and strings of equal
\* length and get_vocab_size returns an integer.
C10_OperationsFollowWinner ==
    (initialized /\ tokenizer \in {"T5", "SPM"} /\ op \in Observers) =>
        /\ path = Winner
        /\ op = "tokenize" => (out.kind = "pair" /\ Len(out.ids) = Len(out.strs))
        /\ op = "get_vocab_size" => out.kind = "int"

(***************************************************************************)
(* handle_calculate_cost_command                                           *)
(***************************************************************************)
ModelNames == <<"gpt-4-turbo", "model-b", "model-c">>
TokenizerNames == {"tiktoken", "sentencepiece"}

\* The pricing table: one entry per model, in insertion order, rates per
\* 1000 tokens.
Tables ==
    {[i \in 1..Len(ModelNames) |->
          [model |-> ModelNames[i], input_rate |-> rin[i], output_rate |-> rout[i]]] :
       rin \in [1..Len(ModelNames) -> 0..MaxRate],
       rout \in [1..Len(ModelNames) -> 0..MaxRate]}

DefaultTable ==
    [i \in 1..Len(ModelNames) |->
        [model |-> ModelNames[i], input_rate |-> 0, output_rate |-> 0]]

\* cost_calculator.compare_models: one entry per pricing-table model, in the
\* table's order; costs in thousandths of the rate unit.
CompareModels(table, input_tokens, output_tokens) ==
    [i \in 1..Len(table) |->
        [model |-> table[i].model,
         input_cost |-> input_tokens * table[i].input_rate,
         output_cost |-> output_tokens * table[i].output_rate,
         total_cost |-> input_tokens * table[i].input_rate
                          + output_tokens * table[i].output_rate]]

\* A plausible slip: an entry is placed before the entries of equal cost.
RECURSIVE InsertByTotalCostBeforeEqual(_, _)
InsertByTotalCostBeforeEqual(sorted, x) ==
    IF sorted = <<>> THEN <<x>>
    ELSE IF Head(sorted).total_cost < x.total_cost
    THEN <<Head(sorted)>> \o InsertByTotalCostBeforeEqual(Tail(sorted), x)
    ELSE <<x>> \o sorted

\* sorted(..., key=total_cost) is stable: an entry goes after the entries
\* whose key is not greater.
RECURSIVE InsertByTotalCost(_, _)
InsertByTotalCost(sorted, x) ==
    IF sorted = <<>> THEN <<x>>
    ELSE IF Head(sorted).total_cost <= x.total_cost
    THEN <<Head(sorted)>> \o InsertByTotalCost(Tail(sorted), x)
    ELSE <<x>> \o sorted

RECURSIVE SortedByTotalCost(_)
SortedByTotalCost(items) ==
    IF items = <<>> THEN <<>>
    ELSE InsertByTotalCost(SortedByTotalCost(SubSeq(items, 1, Len(items) - 1)),
                           items[Len(items)])

\* The arguments of one invocation and the answers of its collaborators.
BaseRequests ==
    [fileCase : {"text", "file_ok", "file_err"},
     initOk : BOOLEAN,
     available : SUBSET TokenizerNames,
     tokenizer : TokenizerNames,
     tokenizeRaises : BOOLEAN,
     input_tokens : 0..MaxTokens,
     output_tokens : 0..MaxTokens,
     what_if : BOOLEAN,
     compare_models_flag : BOOLEAN,
     table : {DefaultTable}]

Checked(q) == q.fileCase # "file_err" /\ q.initOk /\ q.tokenizer \in q.available

\* The pricing table is read by compare_models alone.
TablesFor(q) ==
    IF Checked(q) /\ ~q.tokenizeRaises /\ q.compare_models_flag
    THEN Tables ELSE {DefaultTable}

Done(h) == h.stop
Step(h, name) == IF Done(h) THEN h ELSE [h EXCEPT !.steps = Append(@, name)]
Stop(h, name) == IF Done(h) THEN h ELSE [h EXCEPT !.steps = Append(@, name), !.stop = TRUE]

\* if input_path.exists() and input_path.is_file(): read it
ReadInput(q, h) ==
    CASE q.fileCase = "text" -> h
      [] q.fileCase = "file_ok" -> Step(Step(h, "open"), "print_info")
      [] OTHER -> Stop(Step(h, "open"), "print_error")

\* A plausible slip: the result of plugin.initialize() is not looked at.
InitPluginUnchecked(q, h) == Step(h, "plugin.initialize")

\* plugin = TokenScopePlugin(); init_result = plugin.initialize()
InitPlugin(q, h) ==
    LET h1 == Step(h, "plugin.initialize")
    IN  IF q.initOk THEN h1 ELSE Stop(h1, "print_error")

\* if tokenizer not in available_tokenizers: print_error, return
LookupTokenizer(q, h) ==
    IF q.tokenizer \in q.available THEN h ELSE Stop(h, "print_error")

\* input_tokens = len(tokenizer_instance.tokenize(input_text)[0])
CountTokens(q, h) ==
    IF q.tokenizeRaises THEN Stop(h, "tokenize") ELSE Step(h, "tokenize")

\* display_cost_summary, then the what-if analysis when asked for
ShowCosts(q, h) ==
    LET h1 == Step(h, "display_cost_summary")
    IN  IF q.what_if
        THEN Step(Step(h1, "run_what_if_analysis"), "display_what_if_results")
        ELSE h1

\* if compare_models_flag: compare_models, one add_row per sorted entry, print
CompareAndPrint(q, h) ==
    IF Done(h) \/ ~q.compare_models_flag THEN h
    ELSE LET results == CompareModels(q.table, q.input_tokens, q.output_tokens)
         IN  [Step(Step(h, "compare_models"), "print_table")
                 EXCEPT !.results = results, !.rows = SortedByTotalCost(results)]

HandleRun(q) ==
    CompareAndPrint(q, ShowCosts(q, CountTokens(q, LookupTokenizer(q,
        InitPlugin(q, ReadInput(q,
            [steps |-> <<>>, stop |-> FALSE, results |-> <<>>, rows |-> <<>>]))))))

HandleCalculateCost ==
    /\ cliPc = "start"
    /\ LET h == HandleRun(cliReq)
       IN  /\ cliSteps' = h.steps
           /\ cliResults' = h.results
           /\ cliRows' = h.rows
    /\ cliPc' = "done"
    /\ UNCHANGED cliReq
    /\ UNCHANGED tokVars

CliInit ==
    /\ cliPc = "start"
    /\ \E q \in BaseRequests : \E t \in TablesFor(q) : cliReq = [q EXCEPT !.table = t]
    /\ cliSteps = <<>>
    /\ cliResults = <<>>
    /\ cliRows = <<>>

HasStep(n) == \E i \in 1..Len(cliSteps) : cliSteps[i] = n
Computations ==
    {"tokenize", "display_cost_summary", "run_what_if_analysis",
     "display_what_if_results", "compare_models", "print_table"}

TablePosition(m) == CHOOSE i \in 1..Len(ModelNames) : ModelNames[i] = m

\* C7: when the comparison runs, the table gets exactly one row per entry
\* compare_models returned, in ascending total_cost order, entries of equal
\* total_cost in the pricing table's insertion order.
C7_RowsSortedStable ==
    (cliPc = "done" /\ HasStep("compare_models")) =>
        /\ Len(cliRows) = Len(cliResults)
        /\ \A i \in 1..Len(cliResults) :
              Cardinality({j \in 1..Len(cliRows) : cliRows[j] = cliResults[i]}) = 1
        /\ \A i, j \in 1..Len(cliRows) :
              i < j =>
                 /\ cliRows[i].total_cost <= cliRows[j].total_cost
                 /\ cliRows[i].total_cost = cliRows[j].total_cost
                       => TablePosition(cliRows[i].model) < TablePosition(cliRows[j].model)

\* C7 witness: a comparison where two entries tie and a cheaper entry stands
\* later in the pricing table than a dearer one.
C7_Witness ==
    /\ cliPc = "done" /\ HasStep("compare_models") /\ Len(cliRows) = Len(ModelNames)
    /\ \E i, j \in 1..Len(cliResults) :
          i < j /\ cliResults[i].total_cost = cliResults[j].total_cost
    /\ \E i, j \in 1..Len(cliResults) :
          i < j /\ cliResults[i].total_cost > cliResults[j].total_cost

\* C8: unless plugin.initialize() reported success and the requested
\* tokenizer is among the plugin's tokenizers, the handler tokenizes nothing
\* and computes nothing: it prints an error and stops there.
C8_NoWorkUnlessReady ==
    (cliPc = "done" /\ ~(cliReq.initOk /\ cliReq.tokenizer \in cliReq.available)) =>
        /\ \A i \in 1..Len(cliSteps) : cliSteps[i] \notin Computations
        /\ Len(cliSteps) >= 1 /\ cliSteps[Len(cliSteps)] = "print_error"
        /\ cliResults = <<>> /\ cliRows = <<>>

\* C8 witness: the plugin initialized, the requested tokenizer is not among
\* its tokenizers, everything was asked for, and the handler stopped.
C8_Witness ==
    /\ cliPc = "done" /\ cliReq.initOk /\ cliReq.tokenizer \notin cliReq.available
    /\ cliReq.available # {} /\ cliReq.what_if /\ cliReq.compare_models_flag
    /\ cliSteps[Len(cliSteps)] = "print_error"

NextCli == HandleCalculateCost

InitCli == TokInit /\ ~artifact /\ CliInit

SpecCli == InitCli /\ [][NextCli]_vars

Init == TokInit /\ CliIdle

Next == Initialize \/ Tokenize \/ Decode \/ GetVocabSize

Spec == Init /\ [][Next]_vars

====
